---- MODULE Spec2Model ----
(***************************************************************************)
(* State-machine model of the voice-agent orchestrator package             *)
(* (src/orchestrator): ContextManager, LanguageCoordinator, CircuitBreaker,*)
(* TaskRouter, MetricsCollector and AgentOrchestrator.process_turn.        *)
(*                                                                         *)
(* Python values: None is the string "None"; a missing dictionary key is   *)
(* "absent".  The content of a message is a sequence of tokens, so that    *)
(* the split of a system prompt on the language-directive marker is a real *)
(* computation; a text returned by a capability is a string and becomes a  *)
(* one-token content.  Message timestamps and the measured latencies are   *)
(* left out: nothing reads them back.  now is the last reading of          *)
(* time.time(); the clock is read only where the code reads it.  In the    *)
(* specification of a breaker on its own (SpecCB) now is the clock itself  *)
(* and time passes between calls.                                          *)
(* One coroutine step is the code between two awaits (asyncio runs it      *)
(* without preemption).                                                    *)
(*                                                                         *)
(* Every component starts in the state its own __init__ builds.            *)
(* LanguageCoordinator.__init__ (language_coordinator.py:22) has no        *)
(* default_language parameter and sets selected_language = None; that is   *)
(* the coordinator state the orchestrator model starts from.               *)
(***************************************************************************)
EXTENDS Integers, Sequences, FiniteSets, TLC

(***************************************************************************)
(* Bounds of the model                                                     *)
(***************************************************************************)
MaxTurns == 2
MaxAdds == 4
MaxHistoryBound == 2
MaxLangOps == 5
MaxTime == 2
MaxOutageTurns == 5
MaxInFlight == 2
MaxRetry == 3
MaxSessionTurns == 2
MaxLiveTurns == 2

(***************************************************************************)
(* Python value helpers                                                    *)
(***************************************************************************)
NoneV == "None"
Absent == "absent"

\* a prompt is a sequence of tokens; None and "" (both falsy) are <<>>
NoPrompt == <<>>

\* truthiness of an Optional[str]: None and "" are falsy
Truthy(x) == x \notin {NoneV, ""}

\* str.strip() on the texts the capabilities can return
Strip(t) == IF t = " " THEN "" ELSE t

\* `x and len(x.strip()) > 0` (task_router.py:51, :97)
NonEmptyText(t) == Truthy(t) /\ Strip(t) # ""

\* list[-n:] for n >= 0: Python reads -0 as 0, so n = 0 keeps the whole list
NegSlice(s, n) ==
  IF n = 0 \/ n >= Len(s) THEN s ELSE SubSeq(s, Len(s) - n + 1, Len(s))

(***************************************************************************)
(* ContextManager (context_manager.py)                                     *)
(***************************************************************************)
IsSystem(m) == m.role = "system"
NotSystem(m) == m.role # "system"
IsUser(m) == m.role = "user"

SystemMessages(h) == SelectSeq(h, IsSystem)
NonSystemMessages(h) == SelectSeq(h, NotSystem)

\* the sliding window of add_turn: lines 57-63
TrimMut(h, k) ==
  IF Len(h) > k * 2
  THEN SystemMessages(h) \o SubSeq(NonSystemMessages(h), 1, k * 2)
  ELSE h
Trim(h, k) ==
  IF Len(h) > k * 2
  THEN SystemMessages(h) \o NegSlice(h, k * 2)
  ELSE h

add_turn(h, k, user_input, assistant_response, language) ==
  Trim(h \o << [role |-> "user", content |-> user_input, language |-> language],
               [role |-> "assistant", content |-> assistant_response,
                language |-> language] >>, k)

set_system_promptMut(h, system_prompt) ==
  <<[role |-> "system", content |-> system_prompt]>> \o h
set_system_prompt(h, system_prompt) ==
  <<[role |-> "system", content |-> system_prompt]>> \o NonSystemMessages(h)

StripMsg(m) == [role |-> m.role, content |-> m.content]

get_contextMut(h, system_prompt) ==
  LET sys == SystemMessages(h)
      head == IF system_prompt # NoPrompt
              THEN <<[role |-> "system", content |-> system_prompt]>>
              ELSE IF Len(sys) > 0
                   THEN <<[role |-> "system", content |-> sys[1].content]>>
                   ELSE <<>>
      rest == NonSystemMessages(h)
  IN head \o [i \in 1..Len(rest) |-> StripMsg(rest[i])]
get_context(h, system_prompt) ==
  LET sys == SystemMessages(h)
      head == IF Len(sys) > 0
              THEN <<[role |-> "system", content |-> sys[1].content]>>
              ELSE IF system_prompt # NoPrompt
                   THEN <<[role |-> "system", content |-> system_prompt]>>
                   ELSE <<>>
      rest == NonSystemMessages(h)
  IN head \o [i \in 1..Len(rest) |-> StripMsg(rest[i])]

clear_historyMut(h) == <<>>
clear_history(h) == SystemMessages(h)

get_turn_count(h) == Len(SelectSeq(h, IsUser))

(***************************************************************************)
(* LanguageCoordinator (language_coordinator.py)                           *)
(***************************************************************************)
LANGUAGE_NAMES ==
  [x \in {"te-IN", "hi-IN", "en-IN", "gu-IN"} |->
     CASE x = "te-IN" -> "Telugu"
       [] x = "hi-IN" -> "Hindi"
       [] x = "en-IN" -> "English"
       [] x = "gu-IN" -> "Gujarati"]

\* __init__, lines 22-42
LanguageCoordinatorInit(switch_threshold, history_size, min_turns_before_switch) ==
  [selected_language |-> NoneV,
   detected_language |-> NoneV,
   language_consistency |-> TRUE,
   switch_threshold |-> switch_threshold,
   history_size |-> history_size,
   min_turns_before_switch |-> min_turns_before_switch,
   language_history |-> <<>>,
   consecutive_different_count |-> 0,
   turn_count |-> 0,
   last_different_language |-> NoneV]

\* what a constructor call leaves when Python cannot bind a keyword
TypeErrorV == [raised |-> "TypeError"]

\* the parameters of __init__, line 22
InitParams == {"switch_threshold", "history_size", "min_turns_before_switch"}

KwArg(kwargs, name, default) ==
  IF name \in DOMAIN kwargs THEN kwargs[name] ELSE default

\* the call LanguageCoordinator(**kwargs): the keywords are bound to the
\* parameters of __init__ with their defaults (line 22); a keyword that is
\* not a parameter raises TypeError and no object is built
LanguageCoordinatorNew(kwargs) ==
  IF DOMAIN kwargs \subseteq InitParams
  THEN LanguageCoordinatorInit(KwArg(kwargs, "switch_threshold", 2),
                               KwArg(kwargs, "history_size", 5),
                               KwArg(kwargs, "min_turns_before_switch", 2))
  ELSE TypeErrorV

\* set_language, lines 44-56
set_language(L, language_code) ==
  [L EXCEPT !.selected_language =
     IF language_code \in DOMAIN LANGUAGE_NAMES THEN language_code ELSE "te-IN"]

\* the auto-switch test of set_detected_language, lines 94-95
ShouldSwitchMut(L) == L.turn_count >= L.min_turns_before_switch
ShouldSwitch(L) ==
  /\ L.consecutive_different_count >= L.switch_threshold
  /\ L.turn_count >= L.min_turns_before_switch

\* set_detected_language, lines 58-118
set_detected_language(L, language_code) ==
  LET hist1 == Append(L.language_history, language_code)
      hist == IF Len(hist1) > L.history_size THEN Tail(hist1) ELSE hist1
      L1 == [L EXCEPT !.detected_language = language_code,
                      !.language_history = hist]
  IN IF Truthy(L1.selected_language) /\ language_code # L1.selected_language
     THEN LET L2 == IF L1.last_different_language = language_code
                    THEN [L1 EXCEPT !.consecutive_different_count = @ + 1]
                    ELSE [L1 EXCEPT !.consecutive_different_count = 1,
                                    !.last_different_language = language_code]
          IN IF ShouldSwitch(L2)
             THEN [L2 EXCEPT !.selected_language = language_code,
                             !.consecutive_different_count = 0,
                             !.last_different_language = NoneV,
                             !.language_consistency = TRUE]
             ELSE L2
     ELSE [L1 EXCEPT !.consecutive_different_count = 0,
                     !.last_different_language = NoneV,
                     !.language_consistency = TRUE]

\* get_processing_language, lines 120-129: selected or detected or "te-IN"
get_processing_languageMut(L) ==
  IF Truthy(L.selected_language) THEN L.selected_language ELSE "te-IN"
get_processing_language(L) ==
  IF Truthy(L.selected_language) THEN L.selected_language
  ELSE IF Truthy(L.detected_language) THEN L.detected_language
  ELSE "te-IN"

\* get_language_name, lines 131-143, with an explicit code
get_language_name(language_code) ==
  IF language_code \in DOMAIN LANGUAGE_NAMES
  THEN LANGUAGE_NAMES[language_code] ELSE "Telugu"

\* ensure_consistency, lines 145-166: the coordinator after the call
ensure_consistency_state(L) ==
  [L EXCEPT !.turn_count = @ + 1,
            !.language_consistency =
               IF Truthy(L.selected_language) /\ Truthy(L.detected_language)
               THEN L.selected_language = L.detected_language
               ELSE @]

\* ensure_consistency: the returned language (target_language, line 153)
ensure_consistency_valueMut(L) ==
  IF Truthy(L.detected_language) THEN L.detected_language
  ELSE IF Truthy(L.selected_language) THEN L.selected_language
  ELSE "te-IN"
ensure_consistency_value(L) == get_processing_language(L)

(***************************************************************************)
(* CircuitBreaker (circuit_breaker.py)                                     *)
(***************************************************************************)
\* __init__, lines 22-36
CircuitBreakerInit(failure_threshold, timeout) ==
  [failure_threshold |-> failure_threshold,
   timeout |-> timeout,
   failure_count |-> 0,
   state |-> "closed",
   last_failure_time |-> 0,
   success_count |-> 0,
   half_open_success_threshold |-> 2]

\* call, lines 53-62: TRUE when the call is refused with CircuitBreakerOpen
CircuitRejects(b, t) ==
  b.state = "open" /\ ~(t - b.last_failure_time > b.timeout)

\* call, lines 53-58: the breaker once the call has been let through
CircuitEnterMut(b, t) ==
  IF b.state = "open" /\ t - b.last_failure_time > b.timeout
  THEN [b EXCEPT !.state = "closed", !.success_count = 0]
  ELSE b
CircuitEnter(b, t) ==
  IF b.state = "open" /\ t - b.last_failure_time > b.timeout
  THEN [b EXCEPT !.state = "half_open", !.success_count = 0]
  ELSE b

\* call, lines 68-76: the protected function returned
CircuitSuccessMut(b) ==
  IF b.state = "half_open"
  THEN [b EXCEPT !.success_count = @ + 1, !.state = "closed",
                 !.failure_count = 0]
  ELSE IF b.state = "closed"
       THEN [b EXCEPT !.failure_count = 0]
       ELSE b
CircuitSuccess(b) ==
  IF b.state = "half_open"
  THEN IF b.success_count + 1 >= b.half_open_success_threshold
       THEN [b EXCEPT !.success_count = @ + 1, !.state = "closed",
                      !.failure_count = 0]
       ELSE [b EXCEPT !.success_count = @ + 1]
  ELSE IF b.state = "closed"
       THEN [b EXCEPT !.failure_count = 0]
       ELSE b

\* call, lines 80-93: the protected function raised
CircuitFailureMut(b, t) ==
  LET b1 == [b EXCEPT !.failure_count = @ + 1, !.last_failure_time = t]
  IN IF b1.failure_count > b1.failure_threshold
     THEN [b1 EXCEPT !.state = "open"]
     ELSE IF b1.state = "half_open"
          THEN [b1 EXCEPT !.state = "open"]
          ELSE b1
CircuitFailure(b, t) ==
  LET b1 == [b EXCEPT !.failure_count = @ + 1, !.last_failure_time = t]
  IN IF b1.failure_count >= b1.failure_threshold
     THEN [b1 EXCEPT !.state = "open"]
     ELSE IF b1.state = "half_open"
          THEN [b1 EXCEPT !.state = "open"]
          ELSE b1

\* get_state, line 108: the time_until_retry entry of the returned dictionary
time_until_retry(b, t) ==
  IF b.state = "open"
  THEN IF b.timeout - (t - b.last_failure_time) > 0
       THEN b.timeout - (t - b.last_failure_time) ELSE 0
  ELSE 0

\* reset, lines 111-117
CircuitReset(b) ==
  [b EXCEPT !.state = "closed", !.failure_count = 0, !.success_count = 0,
            !.last_failure_time = 0]

(***************************************************************************)
(* State                                                                   *)
(***************************************************************************)
VARIABLES
  conversation_history,  \* ContextManager.conversation_history
  max_history,           \* ContextManager.max_history
  current_language,      \* ContextManager.current_language
  language_coordinator,  \* the LanguageCoordinator object
  circuit_breakers,      \* AgentOrchestrator.circuit_breakers: name -> breaker
  metrics,               \* AgentOrchestrator.metrics: None or the collector
  is_processing,         \* AgentOrchestrator.is_processing
  processing_state,      \* AgentOrchestrator.processing_state
  last_error,            \* AgentOrchestrator.last_error
  now,                   \* the last reading of time.time()
  pc,                    \* per caller: the await its process_turn call is at, or "idle"
  loc,                   \* per caller: the locals of its current or last call
  result,                \* per caller: the dictionary its last call returned
  turns,                 \* history: number of accepted turns
  fresh,                 \* history: "new", "first" (one turn, nothing else), "used"
  failRun,               \* history: per capability, consecutive all-raising turns
  inserted,              \* history: user texts given to add_turn since the last clear
  adds,                  \* history: number of add_turn calls made directly
  lastPrompt,            \* history: <<p>> for the last set_system_prompt(p)
  cmLog,                 \* history: the last get_context or clear_history call
  router,                \* a TaskRouter call made on its own: its locals and history
  lcLog,                 \* history: the last calls made on the coordinator
  breaker,               \* a CircuitBreaker object used on its own
  inflight,              \* calls of breaker.call awaiting the protected function
  cbLog                  \* history: the last event on breaker

cmVars == <<conversation_history, max_history, current_language>>
orchVars == <<circuit_breakers, metrics, is_processing, processing_state,
              last_error, now, pc, loc, result, turns, fresh, failRun>>
vars == <<conversation_history, max_history, current_language,
          language_coordinator, circuit_breakers, metrics, is_processing,
          processing_state, last_error, now, pc, loc, result, turns, fresh,
          failRun, inserted, adds, lastPrompt, cmLog, router, lcLog, breaker,
          inflight, cbLog>>
cbVars == <<breaker, inflight, cbLog>>

Callers == {1, 2}

\* what a capability did when it was last invoked: it raised, or it
\* returned value (and, for STT, the detected language lang)
NoOutcome == [kind |-> "none", value |-> NoneV, lang |-> NoneV]

\* the locals of a process_turn call that has not started; calls counts the
\* capability invocations of the call, the *_out fields keep the last outcome,
\* stt_language the language given to route_transcription, switched whether
\* the selected language changed at line 227, history_before the
\* conversation history when the call was accepted
IdleLoc ==
  [language |-> NoneV, system_prompt |-> NoPrompt,
   stt_language |-> NoneV, switched |-> FALSE, history_before |-> <<>>,
   processing_language |-> NoneV, text |-> NoneV, detected_lang |-> NoneV,
   response |-> NoneV, audio_output |-> NoneV, attempt |-> 0,
   accepted |-> FALSE, all_raised |-> TRUE, messages |-> <<>>,
   calls |-> [stt |-> 0, llm |-> 0, tts |-> 0],
   stt_out |-> NoOutcome, llm_out |-> NoOutcome, tts_out |-> NoOutcome]

NoResult == [kind |-> "none"]

NoCollector == [collector |-> FALSE]

\* AgentOrchestrator.__init__ lines 66-69 and the callers before any call
OrchIdle ==
  /\ is_processing = FALSE
  /\ processing_state = "idle"
  /\ last_error = NoneV
  /\ now = 0
  /\ pc = [c \in Callers |-> "idle"]
  /\ loc = [c \in Callers |-> IdleLoc]
  /\ result = [c \in Callers |-> NoResult]
  /\ turns = 0
  /\ fresh = "new"
  /\ failRun = [d \in {"stt", "llm", "tts"} |-> 0]

\* the breaker history before any call: no event, no failure since the last
\* success or reset, no success since the breaker became half_open, no value
\* returned by get_state, no state change made by a call
EmptyCBLog ==
  [event |-> "none", consecutive |-> 0, half_open_successes |-> 0,
   time_until_retry |-> 0, transitions |-> {}]

\* no call of route_transcription or route_synthesis has been made
RouterIdle ==
  [fn |-> "none", retry_count |-> 0, attempt |-> 0, calls |-> 0,
   pc |-> "idle", outs |-> <<>>, returned |-> <<>>]

\* a breaker with the defaults of CircuitBreaker.__init__, never called
CBIdle ==
  /\ breaker = CircuitBreakerInit(5, 60)
  /\ inflight = 0
  /\ cbLog = EmptyCBLog

(***************************************************************************)
(* ContextManager on its own: any sequence of add_turn, set_system_prompt  *)
(* and clear_history                                                       *)
(***************************************************************************)
\* no get_context or clear_history call has been made since the history
\* was last written
EmptyCMLog ==
  [op |-> "none", fallback |-> NoPrompt, returned |-> <<>>,
   turns_before |-> 0, system_before |-> <<>>]

UserTexts == {<<"u1">>, <<"u2">>}
AssistantTexts == {<<"a1">>, <<>>}
Prompts == {<<"P1">>, <<"P2">>}

InitCM ==
  /\ conversation_history = <<>>
  /\ max_history \in 0..MaxHistoryBound
  /\ current_language = NoneV
  /\ language_coordinator = LanguageCoordinatorInit(2, 5, 2)
  /\ circuit_breakers = << >>
  /\ metrics = NoCollector
  /\ OrchIdle
  /\ inserted = <<>>
  /\ adds = 0
  /\ lastPrompt = <<>>
  /\ cmLog = EmptyCMLog
  /\ router = RouterIdle
  /\ lcLog = [n |-> 0, last |-> << >>, kwargs |-> << >>, switch |-> << >>,
             switched |-> << >>]
  /\ CBIdle

CMAddTurn(u, a, l) ==
  /\ adds < MaxAdds
  /\ adds' = adds + 1
  /\ conversation_history' = add_turn(conversation_history, max_history, u, a, l)
  /\ current_language' = l
  /\ inserted' = Append(inserted, u)
  /\ cmLog' = EmptyCMLog
  /\ UNCHANGED <<max_history, language_coordinator, orchVars, lastPrompt, lcLog,
                 router, cbVars>>

CMSetSystemPrompt(p) ==
  /\ conversation_history' = set_system_prompt(conversation_history, p)
  /\ lastPrompt' = <<p>>
  /\ cmLog' = EmptyCMLog
  /\ UNCHANGED <<max_history, current_language, language_coordinator, orchVars,
                 inserted, adds, lcLog, router, cbVars>>

CMClearHistory ==
  /\ conversation_history' = clear_history(conversation_history)
  /\ inserted' = <<>>
  /\ cmLog' = [EmptyCMLog EXCEPT
                 !.op = "clear_history",
                 !.turns_before = get_turn_count(conversation_history),
                 !.system_before = SystemMessages(conversation_history)]
  /\ UNCHANGED <<max_history, current_language, language_coordinator, orchVars,
                 adds, lastPrompt, lcLog, router, cbVars>>

\* get_context(system_prompt=fallback): the history is only read
CMGetContext(fallback) ==
  /\ cmLog' = [EmptyCMLog EXCEPT
                 !.op = "get_context",
                 !.fallback = fallback,
                 !.returned = get_context(conversation_history, fallback)]
  /\ UNCHANGED <<cmVars, language_coordinator, orchVars, inserted, adds,
                 lastPrompt, lcLog, router, cbVars>>

NextCM ==
  \/ \E u \in UserTexts, a \in AssistantTexts, l \in {"te-IN", "hi-IN"} :
       CMAddTurn(u, a, l)
  \/ \E p \in Prompts : CMSetSystemPrompt(p)
  \/ CMClearHistory
  \/ \E fallback \in {NoPrompt, <<"F">>} : CMGetContext(fallback)

SpecCM == InitCM /\ [][NextCM]_vars

UserContents(h) ==
  LET us == SelectSeq(h, IsUser) IN [i \in 1..Len(us) |-> us[i].content]

Min(a, b) == IF a <= b THEN a ELSE b

\* C8: with max_history = k >= 1, after N add_turn calls (system prompt set
\* or not, before or between them) get_turn_count() = min(N, k), the retained
\* user messages are the last min(N, k) inserted, in insertion order, and the
\* system message, once set, is still there.
C8_HistoryBound ==
  max_history >= 1 =>
    LET n == Len(inserted)
        m == Min(n, max_history)
    IN /\ get_turn_count(conversation_history) = m
       /\ UserContents(conversation_history) = SubSeq(inserted, n - m + 1, n)
       /\ (lastPrompt # <<>> => Len(SystemMessages(conversation_history)) >= 1)

C8_Witness ==
  /\ max_history >= 1
  /\ Len(inserted) > max_history
  /\ lastPrompt # <<>>
  /\ inserted[1] # inserted[Len(inserted)]

\* C9: with max_history >= 1, in every state reachable by set_system_prompt,
\* add_turn and clear_history the history holds at most one system message,
\* and it carries the text of the most recent set_system_prompt call.
C9_OneSystemMessage ==
  max_history >= 1 =>
    /\ Len(SystemMessages(conversation_history)) <= 1
    /\ \A i \in 1..Len(SystemMessages(conversation_history)) :
         /\ lastPrompt # <<>>
         /\ SystemMessages(conversation_history)[i].content = lastPrompt[1]
    /\ (lastPrompt # <<>> => Len(SystemMessages(conversation_history)) = 1)

C9_Witness ==
  /\ max_history >= 1
  /\ Len(inserted) > max_history
  /\ lastPrompt = << <<"P2">> >>
  /\ Len(conversation_history) = 2 * max_history + 1

\* the entries of h that are not system messages, in the order of h
Conversation(h) == SelectSeq(h, LAMBDA m : m.role # "system")

\* C23: get_context(fallback) returns first the stored system message if
\* there is one, else the fallback prompt if one is given, else no system
\* entry; then every retained non-system message in insertion order; each
\* returned entry has the fields role and content only.
C23_GetContextShape ==
  cmLog.op = "get_context" =>
    LET r == cmLog.returned
        stored == SelectSeq(conversation_history, LAMBDA m : m.role = "system")
        rest == Conversation(conversation_history)
        off == IF stored # <<>> \/ cmLog.fallback # NoPrompt THEN 1 ELSE 0
    IN /\ Len(r) = off + Len(rest)
       /\ \A i \in 1..Len(r) : DOMAIN r[i] = {"role", "content"}
       /\ stored # <<>> =>
            r[1] = [role |-> "system", content |-> stored[1].content]
       /\ (stored = <<>> /\ cmLog.fallback # NoPrompt) =>
            r[1] = [role |-> "system", content |-> cmLog.fallback]
       /\ \A i \in 1..Len(rest) :
            /\ r[off + i].role = rest[i].role
            /\ r[off + i].content = rest[i].content

C23_Witness ==
  /\ cmLog.op = "get_context"
  /\ cmLog.fallback = <<"F">>
  /\ Len(cmLog.returned) = 3
  /\ cmLog.returned[1].content = <<"P1">>
  /\ cmLog.returned[2].content = <<"u2">>
  /\ "language" \in DOMAIN conversation_history[2]

\* C24: clear_history removes every user and assistant message, so that
\* get_turn_count() is 0 afterwards, and leaves the system message, if there
\* is one, present and unchanged.
C24_ClearKeepsSystemMessage ==
  cmLog.op = "clear_history" =>
    /\ get_turn_count(conversation_history) = 0
    /\ Conversation(conversation_history) = <<>>
    /\ conversation_history = cmLog.system_before

C24_Witness ==
  /\ cmLog.op = "clear_history"
  /\ cmLog.turns_before = 2
  /\ Len(conversation_history) = 1
  /\ conversation_history[1].role = "system"
  /\ conversation_history[1].content = <<"P2">>

(***************************************************************************)
(* LanguageCoordinator on its own: any sequence of set_language,           *)
(* set_detected_language and ensure_consistency                            *)
(***************************************************************************)
LangCodes == {"te-IN", "hi-IN", "en-IN", "xx-XX"}

\* the keyword arguments the coordinator is constructed with; the last two
\* are the calls of tests/unit/test_language_coordinator.py lines 11 and 33
CoordinatorKwargs ==
  { << >>,
    [min_turns_before_switch |-> 1],
    [history_size |-> 2],
    [history_size |-> 2, min_turns_before_switch |-> 1],
    [default_language |-> "en-IN"],
    [default_language |-> "te-IN", switch_threshold |-> 2,
     min_turns_before_switch |-> 1] }

\* an object was built
Constructed == language_coordinator # TypeErrorV

\* <<A, B>> when the call set_detected_language took the coordinator L to L2
\* by switching the selected language from A to B, << >> for any other call
AutoSwitch(op, L, L2) ==
  IF op = "set_detected_language"
       /\ L.selected_language # L2.selected_language
  THEN <<L.selected_language, L2.selected_language>>
  ELSE << >>

\* the log keeps the last three calls, the number of calls made, the
\* constructor's keywords, and the auto-switch made by the last call (switch)
\* and by the call before it (switched)
LogCall(log, op, arg, L, L2) ==
  [n |-> log.n + 1,
   last |-> IF Len(log.last) < 3 THEN Append(log.last, <<op, arg>>)
            ELSE Append(Tail(log.last), <<op, arg>>),
   kwargs |-> log.kwargs,
   switch |-> AutoSwitch(op, L, L2),
   switched |-> log.switch]

EmptyLog ==
  [n |-> 0, last |-> << >>, kwargs |-> << >>, switch |-> << >>,
   switched |-> << >>]

InitLC ==
  /\ conversation_history = <<>>
  /\ max_history = 10
  /\ current_language = NoneV
  /\ \E kwargs \in CoordinatorKwargs :
       /\ language_coordinator = LanguageCoordinatorNew(kwargs)
       /\ lcLog = [EmptyLog EXCEPT !.kwargs = kwargs]
  /\ circuit_breakers = << >>
  /\ metrics = NoCollector
  /\ OrchIdle
  /\ inserted = <<>>
  /\ adds = 0
  /\ lastPrompt = <<>>
  /\ cmLog = EmptyCMLog
  /\ router = RouterIdle
  /\ CBIdle

lcFrame ==
  <<cmVars, orchVars, inserted, adds, lastPrompt, cmLog, router, cbVars>>

LCSetLanguage(code) ==
  /\ Constructed
  /\ lcLog.n < MaxLangOps
  /\ language_coordinator' = set_language(language_coordinator, code)
  /\ lcLog' = LogCall(lcLog, "set_language", code,
                      language_coordinator, language_coordinator')
  /\ UNCHANGED lcFrame

LCSetDetectedLanguage(code) ==
  /\ Constructed
  /\ lcLog.n < MaxLangOps
  /\ language_coordinator' = set_detected_language(language_coordinator, code)
  /\ lcLog' = LogCall(lcLog, "set_detected_language", code,
                      language_coordinator, language_coordinator')
  /\ UNCHANGED lcFrame

LCEnsureConsistency ==
  /\ Constructed
  /\ lcLog.n < MaxLangOps
  /\ language_coordinator' = ensure_consistency_state(language_coordinator)
  /\ lcLog' = LogCall(lcLog, "ensure_consistency",
                      ensure_consistency_value(language_coordinator),
                      language_coordinator, language_coordinator')
  /\ UNCHANGED lcFrame

NextLC ==
  \/ \E code \in LangCodes : LCSetLanguage(code)
  \/ \E code \in LangCodes : LCSetDetectedLanguage(code)
  \/ LCEnsureConsistency

SpecLC == InitLC /\ [][NextLC]_vars

Supported == DOMAIN LANGUAGE_NAMES

\* the last calls were set_language(a) followed by the detections ds
LastCallsAre(a, ds) ==
  /\ Len(lcLog.last) >= 1 + Len(ds)
  /\ LET k == Len(lcLog.last) - Len(ds)
     IN /\ lcLog.last[k] = <<"set_language", a>>
        /\ \A i \in 1..Len(ds) :
             lcLog.last[k + i] = <<"set_detected_language", ds[i]>>

\* C10: with switch_threshold = 2 and min_turns_before_switch = 1, after
\* set_language(A) one set_detected_language(B), B supported and different
\* from A, leaves the selected language A; a second consecutive
\* set_detected_language(B) makes the selected language B and
\* consecutive_different_count 0.  (The switch counter of the claim has no
\* field in the coordinator.)
C10_AutoSwitchAfterTwo ==
  (/\ Constructed
   /\ language_coordinator.switch_threshold = 2
   /\ language_coordinator.min_turns_before_switch = 1) =>
    \A a \in Supported : \A b \in Supported \ {a} :
      /\ LastCallsAre(a, <<b>>) => language_coordinator.selected_language = a
      /\ LastCallsAre(a, <<b, b>>) =>
           /\ language_coordinator.selected_language = b
           /\ language_coordinator.consecutive_different_count = 0

\* the most recent call of a log that has one
LastCallOf(log) == log.last[Len(log.last)]

\* this step is the call op(arg) on the coordinator
Called(op, arg) ==
  /\ lcLog'.n = lcLog.n + 1
  /\ LastCallOf(lcLog') = <<op, arg>>

\* this step is a call of op on the coordinator, whatever its argument
CalledOp(op) ==
  /\ lcLog'.n = lcLog.n + 1
  /\ LastCallOf(lcLog')[1] = op

\* the call before the last one auto-switched from A to B and the last call
\* is set_detected_language(A)
DetectedPreviousAfterSwitch ==
  /\ lcLog.n > 0
  /\ lcLog.switched # << >>
  /\ LastCallOf(lcLog) = <<"set_detected_language", lcLog.switched[1]>>

\* C11 as stated: immediately after an auto-switch from A to B,
\* set_detected_language(A) leaves consecutive_different_count at 0 and the
\* selected language at B.
C11_CountZeroAfterSwitchBack ==
  DetectedPreviousAfterSwitch =>
    /\ language_coordinator.consecutive_different_count = 0
    /\ language_coordinator.selected_language = lcLog.switched[2]

\* C11 amended: with switch_threshold >= 2, immediately after an auto-switch
\* from A to B, set_detected_language(A) leaves the selected language at B
\* and starts a new count: consecutive_different_count = 1 and
\* last_different_language = A.
C11_CountOneAfterSwitchBack ==
  (DetectedPreviousAfterSwitch
     /\ language_coordinator.switch_threshold >= 2) =>
    /\ language_coordinator.selected_language = lcLog.switched[2]
    /\ language_coordinator.consecutive_different_count = 1
    /\ language_coordinator.last_different_language = lcLog.switched[1]

C11_Witness ==
  /\ DetectedPreviousAfterSwitch
  /\ language_coordinator.switch_threshold >= 2
  /\ lcLog.switched = <<"te-IN", "hi-IN">>
  /\ language_coordinator.selected_language = "hi-IN"

\* C12: after set_language returns, consecutive_different_count = 0 and
\* last_different_language is cleared.
C12_SetLanguageResetsCounters ==
  (lcLog.n > 0 /\ LastCallOf(lcLog)[1] = "set_language") =>
    /\ language_coordinator.consecutive_different_count = 0
    /\ language_coordinator.last_different_language = NoneV

\* C13: set_detected_language(code) with a code that is not a supported
\* language leaves every field of the coordinator unchanged.
C13_UnsupportedDetectionIgnored ==
  [][\A code \in LangCodes \ Supported :
       Called("set_detected_language", code) =>
         language_coordinator' = language_coordinator]_vars

\* C14: in every state reached by set_language, set_detected_language and
\* ensure_consistency, the selected language, when there is one, is a
\* supported language code (the default "te-IN" is one of them).
C14_SelectedIsSupported ==
  Constructed =>
    language_coordinator.selected_language \in Supported \cup {NoneV}

\* C15: each set_detected_language call with a supported code increments
\* turn_count by exactly one, and set_language and ensure_consistency leave
\* turn_count unchanged.
C15_TurnCountCountsDetections ==
  [][/\ \A code \in Supported :
          Called("set_detected_language", code) =>
            language_coordinator'.turn_count =
              language_coordinator.turn_count + 1
     /\ (CalledOp("set_language") \/ CalledOp("ensure_consistency")) =>
          language_coordinator'.turn_count =
            language_coordinator.turn_count]_vars

C17_StartsWithDefault ==
  (lcLog.n = 0 /\ "default_language" \in DOMAIN lcLog.kwargs) =>
    /\ Constructed
    /\ language_coordinator.selected_language = lcLog.kwargs.default_language
    /\ language_coordinator.detected_language = NoneV

(***************************************************************************)
(* CircuitBreaker on its own: calls of call() that are refused, or let     *)
(* through and later return or raise, reset(), get_state() and the passage *)
(* of time.  now is the clock time.time() reads.                           *)
(***************************************************************************)
FailureThresholds == {1, 2}
Timeouts == {0, 1}

InitCB ==
  /\ conversation_history = <<>>
  /\ max_history = 10
  /\ current_language = NoneV
  /\ language_coordinator = LanguageCoordinatorInit(2, 5, 2)
  /\ circuit_breakers = << >>
  /\ metrics = NoCollector
  /\ OrchIdle
  /\ inserted = <<>>
  /\ adds = 0
  /\ lastPrompt = <<>>
  /\ cmLog = EmptyCMLog
  /\ router = RouterIdle
  /\ lcLog = EmptyLog
  /\ \E failure_threshold \in FailureThresholds, timeout \in Timeouts :
       breaker = CircuitBreakerInit(failure_threshold, timeout)
  /\ inflight = 0
  /\ cbLog = EmptyCBLog

cbFrame ==
  <<cmVars, language_coordinator, circuit_breakers, metrics, is_processing,
    processing_state, last_error, pc, loc, result, turns, fresh, failRun,
    inserted, adds, lastPrompt, cmLog, router, lcLog>>

\* history: the state changes calls have made, <<from, to>>
Moves(log, b, b2) ==
  IF b.state # b2.state
  THEN log.transitions \cup {<<b.state, b2.state>>}
  ELSE log.transitions

\* time passes
CBTick ==
  /\ now < MaxTime
  /\ now' = now + 1
  /\ cbLog' = [cbLog EXCEPT !.event = "tick"]
  /\ UNCHANGED <<breaker, inflight, cbFrame>>

\* call, lines 53-62: the breaker is open and the cooldown is not over, the
\* call raises CircuitBreakerOpen without invoking the function
CBCallRejectedMut ==
  /\ CircuitRejects(breaker, now)
  /\ breaker' = CircuitFailure(breaker, now)
  /\ cbLog' = [cbLog EXCEPT !.event = "rejected"]
  /\ UNCHANGED <<inflight, now, cbFrame>>
CBCallRejected ==
  /\ CircuitRejects(breaker, now)
  /\ cbLog' = [cbLog EXCEPT !.event = "rejected"]
  /\ UNCHANGED <<breaker, inflight, now, cbFrame>>

\* call, lines 53-66: the call is let through and awaits the function
CBCallEnter ==
  /\ ~CircuitRejects(breaker, now)
  /\ inflight < MaxInFlight
  /\ breaker' = CircuitEnter(breaker, now)
  /\ inflight' = inflight + 1
  /\ cbLog' = [cbLog EXCEPT !.event = "entered",
                            !.half_open_successes =
                               IF breaker.state = "open" THEN 0 ELSE @,
                            !.transitions = Moves(cbLog, breaker, breaker')]
  /\ UNCHANGED <<now, cbFrame>>

\* call, lines 66-78: the function of a call in flight returns
CBReturn ==
  /\ inflight > 0
  /\ breaker' = CircuitSuccess(breaker)
  /\ inflight' = inflight - 1
  /\ cbLog' = [cbLog EXCEPT !.event = "returned",
                            !.consecutive = 0,
                            !.half_open_successes =
                               IF breaker.state = "half_open" THEN @ + 1 ELSE @,
                            !.transitions = Moves(cbLog, breaker, breaker')]
  /\ UNCHANGED <<now, cbFrame>>

\* call, lines 80-93: the function of a call in flight raises
CBRaise ==
  /\ inflight > 0
  /\ breaker' = CircuitFailure(breaker, now)
  /\ inflight' = inflight - 1
  /\ cbLog' = [cbLog EXCEPT !.event = "raised",
                            !.consecutive = @ + 1,
                            !.half_open_successes = 0,
                            !.transitions = Moves(cbLog, breaker, breaker')]
  /\ UNCHANGED <<now, cbFrame>>

\* reset, lines 111-117
CBReset ==
  /\ breaker' = CircuitReset(breaker)
  /\ cbLog' = [cbLog EXCEPT !.event = "reset", !.consecutive = 0,
                            !.half_open_successes = 0]
  /\ UNCHANGED <<inflight, now, cbFrame>>

\* get_state, lines 95-109
CBGetState ==
  /\ cbLog' = [cbLog EXCEPT !.event = "get_state",
                            !.time_until_retry = time_until_retry(breaker, now)]
  /\ UNCHANGED <<breaker, inflight, now, cbFrame>>

NextCB ==
  \/ CBTick
  \/ CBCallRejected
  \/ CBCallEnter
  \/ CBReturn
  \/ CBRaise
  \/ CBReset
  \/ CBGetState

SpecCB == InitCB /\ [][NextCB]_vars

\* C18: a closed breaker moves to open exactly on the failing call that
\* makes the number of failures since the last success or reset equal to
\* failure_threshold, and on nothing else; a call that returns while the
\* breaker is closed sets failure_count to zero and leaves it closed.
C18_OpensAtThreshold ==
  [][/\ (breaker.state = "closed" /\ cbLog'.event = "raised") =>
          (breaker'.state = "open" <=>
             cbLog'.consecutive = breaker.failure_threshold)
     /\ (breaker.state = "closed" /\ breaker'.state # "closed") =>
          /\ cbLog'.event = "raised"
          /\ breaker'.state = "open"
     /\ (breaker.state = "closed" /\ cbLog'.event = "returned") =>
          /\ breaker'.state = "closed"
          /\ breaker'.failure_count = 0]_vars

C18_Witness ==
  /\ breaker.state = "open"
  /\ breaker.failure_threshold = 2
  /\ cbLog.event = "raised"
  /\ cbLog.consecutive = 2
  /\ breaker.failure_count = 2

\* C19: for a call made while the breaker is open: if fewer than timeout
\* seconds have passed since the last failure the call is refused and the
\* function is not invoked; once timeout seconds have passed (elapsed >=
\* timeout) the breaker becomes half_open at that call and the function is
\* invoked.  Only a call takes the breaker from open to half_open.
C19_OpenUntilTimeout ==
  [][/\ (breaker.state = "open" /\ cbLog'.event \in {"rejected", "entered"}) =>
          IF now - breaker.last_failure_time < breaker.timeout
          THEN /\ cbLog'.event = "rejected"
               /\ inflight' = inflight
               /\ breaker' = breaker
          ELSE /\ cbLog'.event = "entered"
               /\ inflight' = inflight + 1
               /\ breaker'.state = "half_open"
     /\ (breaker.state = "open" /\ breaker'.state = "half_open") =>
          cbLog'.event = "entered"]_vars

\* C20: while half_open, a call that returns closes the breaker exactly
\* when it is the half_open_success_threshold-th success since the breaker
\* became half_open, and failure_count is then zero; a call that raises
\* while half_open opens the breaker with last_failure_time the time of
\* that failure.
C20_HalfOpenTransitions ==
  [][/\ (breaker.state = "half_open" /\ cbLog'.event = "returned") =>
          /\ breaker'.state = "closed" <=>
               cbLog'.half_open_successes = breaker.half_open_success_threshold
          /\ breaker'.state = "closed" => breaker'.failure_count = 0
          /\ breaker'.state \in {"closed", "half_open"}
     /\ (breaker.state = "half_open" /\ cbLog'.event = "raised") =>
          /\ breaker'.state = "open"
          /\ breaker'.last_failure_time = now
          /\ CircuitRejects(breaker', now)]_vars

C20_Witness ==
  /\ breaker.state = "closed"
  /\ cbLog.event = "returned"
  /\ cbLog.half_open_successes = 2
  /\ breaker.failure_count = 0
  /\ breaker.failure_threshold = 2

\* the state changes of the breaker's state machine
LegalMoves ==
  { <<"closed", "open">>, <<"open", "half_open">>,
    <<"half_open", "closed">>, <<"half_open", "open">> }

\* C21: under any sequence of returning and raising calls at any times, a
\* step other than reset() changes the breaker state only along closed to
\* open, open to half_open, half_open to closed and half_open to open.
C21_LegalTransitions ==
  [][(breaker'.state # breaker.state /\ cbLog'.event # "reset") =>
       <<breaker.state, breaker'.state>> \in LegalMoves]_vars

C21_Witness ==
  /\ cbLog.transitions = LegalMoves
  /\ cbLog.event = "returned"
  /\ breaker.state = "closed"

(***************************************************************************)
(* MetricsCollector (metrics.py)                                           *)
(***************************************************************************)
\* record_turn, lines 39-78, behind the `if self.metrics:` of the orchestrator
record_turn(M, language, success, error_type) ==
  IF ~M.collector THEN M
  ELSE LET tm == Append(M.turn_metrics,
                        [language |-> language, success |-> success,
                         error_type |-> error_type])
       IN [M EXCEPT !.turn_metrics =
             IF Len(tm) > M.max_metrics THEN NegSlice(tm, M.max_metrics) ELSE tm]

(***************************************************************************)
(* AgentOrchestrator (agent_orchestrator.py)                               *)
(***************************************************************************)
FAILURE_THRESHOLD == 5
TIMEOUT == 60
RETRY_COUNT == 2

Marker == "CRITICAL: User selected"
DefaultBasePrompt == <<"You are a helpful customer support agent">>

\* index of the first marker token of a prompt, 0 when there is none
MarkerIndex(p) ==
  IF \E i \in 1..Len(p) : p[i] = Marker
  THEN CHOOSE i \in 1..Len(p) :
         p[i] = Marker /\ \A j \in 1..(i - 1) : p[j] # Marker
  ELSE 0

\* str.strip() on a token sequence: whitespace tokens at both ends go
RECURSIVE StripTokens(_)
StripTokens(p) ==
  IF p = <<>> THEN p
  ELSE IF Head(p) = " " THEN StripTokens(Tail(p))
  ELSE IF p[Len(p)] = " " THEN StripTokens(SubSeq(p, 1, Len(p) - 1))
  ELSE p

\* lines 134-138: the text appended to the base prompt, a blank line and the
\* instruction naming the language
LanguageDirective(language_name) == <<" ", Marker, language_name>>

\* _update_system_prompt_for_language, lines 90-140
update_system_prompt_for_language(h, language_code) ==
  LET language_name == get_language_name(language_code)
      ctx == get_context(h, NoPrompt)
      existing_system == IF Len(ctx) > 0 /\ ctx[1].role = "system"
                         THEN ctx[1].content ELSE NoPrompt
      base_prompt == IF existing_system # <<>> /\ MarkerIndex(existing_system) > 0
                     THEN StripTokens(SubSeq(existing_system, 1,
                                             MarkerIndex(existing_system) - 1))
                     ELSE existing_system
      base == IF base_prompt = <<>> THEN DefaultBasePrompt ELSE base_prompt
  IN set_system_prompt(h, base \o LanguageDirective(language_name))

\* task_router.py lines 56, 63, 135, 142: another attempt follows
MoreAttemptsMut(attempt, retry_count) == attempt < retry_count
MoreAttempts(attempt, retry_count) == attempt < retry_count - 1

\* route_generation, lines 91-92: the messages given to the LLM capability
route_generation_messagesMut(context, text) == context
route_generation_messages(context, text) ==
  Append(context, [role |-> "user", content |-> <<text>>])

\* line 165: the guard of process_turn
AlreadyProcessingMut(flag) == FALSE
AlreadyProcessing(flag) == flag

\* last_error after a capability gave nothing usable: process_turn lines
\* 215-216 (STT) and 275-276 (LLM)
EmptyResultErrorMut(stage) == NoneV
EmptyResultError(stage) ==
  IF stage = "stt" THEN "STT returned empty text"
  ELSE "LLM returned empty response"

\* line 213: `if not text`
SttFailedMut(text) == FALSE
SttFailed(text) == ~Truthy(text)

\* line 273: `if not response`
LlmFailedMut(response) == FALSE
LlmFailed(response) == ~Truthy(response)

\* the dictionaries process_turn returns
TurnResultMut(text, response, audio, language, error, m) ==
  [kind |-> "result", text |-> text, response |-> response, audio |-> audio,
   error |-> error, metrics |-> m]
TurnResult(text, response, audio, language, error, m) ==
  [kind |-> "result", text |-> text, response |-> response, audio |-> audio,
   language |-> language, error |-> error, metrics |-> m]

Guarded(d) == d \in DOMAIN circuit_breakers

\* the clock readings a breaker call can make: time.time() is read at call
\* entry only while the breaker is open (circuit_breaker.py:55)
EntryReadings(d) ==
  IF Guarded(d) /\ circuit_breakers[d].state = "open"
  THEN now..MaxTime ELSE {now}

\* the breakers after the protected router function of d has returned
\* (the router functions return None instead of raising)
AfterReturn(cb, d) ==
  IF d \in DOMAIN cb THEN [cb EXCEPT ![d] = CircuitSuccess(@)] ELSE cb

AfterEntry(cb, d, t) ==
  IF d \in DOMAIN cb THEN [cb EXCEPT ![d] = CircuitEnter(@, t)] ELSE cb

Refused(cb, d, t) == d \in DOMAIN cb /\ CircuitRejects(cb[d], t)

\* history: the run of consecutive turns in which d raised on every attempt
RunAfter(d, raisedAll) ==
  [failRun EXCEPT ![d] = IF raisedAll THEN @ + 1 ELSE 0]

ghostVars == <<inserted, adds, lastPrompt, cmLog, router, lcLog, cbVars>>

\* the inputs of the model
LanguageArgs == {NoneV, "hi-IN"}
SystemPromptArgs == {NoPrompt, <<"OVERRIDE">>}
Raised == [kind |-> "raise", value |-> NoneV, lang |-> NoneV]
Returned(v, l) == [kind |-> "return", value |-> v, lang |-> l]
SttOutcomes ==
  {Raised, Returned("", NoneV)}
    \cup {Returned("hello", l) : l \in {NoneV, "te-IN", "hi-IN"}}
LlmOutcomes == {Raised, Returned(" ", NoneV), Returned("hi there", NoneV)}
TtsOutcomes == {Raised, Returned("", NoneV), Returned("wav", NoneV)}

\* AgentOrchestrator.__init__, lines 47-69, with the default
\* enable_circuit_breaker = True and max_history = 1
Init ==
  /\ \E system_prompt \in {NoPrompt, <<"BASE">>} :
       conversation_history =
         IF system_prompt # NoPrompt
         THEN set_system_prompt(<<>>, system_prompt) ELSE <<>>
  /\ max_history = 1
  /\ current_language = NoneV
  /\ language_coordinator = LanguageCoordinatorInit(2, 5, 2)
  /\ circuit_breakers =
       [d \in {"stt", "llm", "tts"} |->
          CircuitBreakerInit(FAILURE_THRESHOLD, TIMEOUT)]
  /\ \/ metrics = NoCollector
     \/ metrics = [collector |-> TRUE, turn_metrics |-> <<>>, max_metrics |-> 2]
  /\ OrchIdle
  /\ inserted = <<>>
  /\ adds = 0
  /\ lastPrompt = <<>>
  /\ cmLog = EmptyCMLog
  /\ router = RouterIdle
  /\ lcLog = EmptyLog
  /\ CBIdle

\* a new call starts: the model keeps the locals and the returned dictionary
\* of a finished call only until the next call starts
Forget(f, c, blank) ==
  [d \in Callers |-> IF d # c /\ pc[d] = "idle" THEN blank ELSE f[d]]

\* process_turn, lines 164-173: the call is refused
ProcessTurnRejectedMut(c) ==
  /\ pc[c] = "idle"
  /\ AlreadyProcessing(is_processing)
  /\ result' = [Forget(result, c, NoResult) EXCEPT ![c] =
       TurnResult(NoneV, NoneV, NoneV, NoneV, "Already processing", Absent)]
  /\ loc' = [Forget(loc, c, IdleLoc) EXCEPT ![c] = IdleLoc]
  /\ processing_state' = "error"
  /\ last_error' = "Already processing"
  /\ UNCHANGED <<cmVars, language_coordinator, circuit_breakers, metrics,
                 is_processing, now, pc, turns, fresh, failRun, ghostVars>>
ProcessTurnRejected(c) ==
  /\ pc[c] = "idle"
  /\ AlreadyProcessing(is_processing)
  /\ result' = [Forget(result, c, NoResult) EXCEPT ![c] =
       TurnResult(NoneV, NoneV, NoneV, NoneV, "Already processing", Absent)]
  /\ loc' = [Forget(loc, c, IdleLoc) EXCEPT ![c] = IdleLoc]
  /\ UNCHANGED <<cmVars, language_coordinator, circuit_breakers, metrics,
                 is_processing, processing_state, last_error, now, pc, turns,
                 fresh, failRun, ghostVars>>

\* process_turn, lines 175-198 (and 199-209 when the STT breaker refuses):
\* the call passes the guard and runs up to the first await of the STT
\* capability
ProcessTurnAccepted(c, language, system_prompt) ==
  /\ pc[c] = "idle"
  /\ ~AlreadyProcessing(is_processing)
  /\ turns' = turns + 1
  /\ fresh' = IF fresh = "new" THEN "first" ELSE "used"
  /\ is_processing' = TRUE
  /\ LET useArg == Truthy(language)
         processing_language ==
           IF useArg THEN language
           ELSE ensure_consistency_value(language_coordinator)
         l0 == [IdleLoc EXCEPT !.language = language,
                               !.system_prompt = system_prompt,
                               !.processing_language = processing_language,
                               !.stt_language = processing_language,
                               !.history_before = conversation_history,
                               !.accepted = TRUE]
     IN /\ language_coordinator' =
             IF useArg THEN language_coordinator
             ELSE ensure_consistency_state(language_coordinator)
        /\ \E t \in EntryReadings("stt") :
             /\ now' = t
             /\ IF Refused(circuit_breakers, "stt", t)
                THEN /\ processing_state' = "error"
                     /\ last_error' = "STT error: Circuit breaker is OPEN"
                     /\ result' = [Forget(result, c, NoResult) EXCEPT ![c] =
                          TurnResult(NoneV, NoneV, NoneV, processing_language,
                                     "STT error: Circuit breaker is OPEN", Absent)]
                     /\ loc' = [Forget(loc, c, IdleLoc) EXCEPT ![c] = l0]
                     /\ UNCHANGED <<circuit_breakers, pc>>
                ELSE /\ processing_state' = "stt"
                     /\ last_error' = NoneV
                     /\ circuit_breakers' = AfterEntry(circuit_breakers, "stt", t)
                     /\ pc' = [pc EXCEPT ![c] = "stt_call"]
                     /\ loc' = [Forget(loc, c, IdleLoc) EXCEPT ![c] =
                                 [l0 EXCEPT !.calls.stt = 1]]
                     /\ result' = [Forget(result, c, NoResult) EXCEPT ![c] = NoResult]
  /\ UNCHANGED <<cmVars, metrics, failRun, ghostVars>>

\* the STT capability answers: route_transcription lines 46-68, the rest of
\* CircuitBreaker.call, then process_turn lines 211-258 up to the await of
\* the LLM capability
SttReturn(c, out) ==
  /\ pc[c] = "stt_call"
  /\ LET l == loc[c]
         good == out.kind = "return" /\ NonEmptyText(out.value)
         raisedAll == l.all_raised /\ out.kind = "raise"
         l0 == [l EXCEPT !.stt_out = out, !.all_raised = raisedAll]
     IN IF ~good /\ MoreAttempts(l.attempt, RETRY_COUNT)
        THEN /\ pc' = [pc EXCEPT ![c] = "stt_sleep"]
             /\ loc' = [loc EXCEPT ![c] = l0]
             /\ UNCHANGED <<cmVars, language_coordinator, circuit_breakers,
                            metrics, is_processing, processing_state,
                            last_error, now, result, failRun>>
        ELSE LET text == IF good THEN out.value ELSE NoneV
                 detected_lang == IF good THEN out.lang ELSE NoneV
                 cb1 == AfterReturn(circuit_breakers, "stt")
                 l1 == [l0 EXCEPT !.text = text, !.detected_lang = detected_lang]
             IN /\ failRun' = RunAfter("stt", ~good /\ raisedAll)
                /\ IF SttFailed(text)
                   THEN /\ processing_state' = "error"
                        /\ last_error' = EmptyResultError("stt")
                        /\ result' = [result EXCEPT ![c] =
                             TurnResult(NoneV, NoneV, NoneV, l.processing_language,
                                        EmptyResultError("stt"), Absent)]
                        /\ pc' = [pc EXCEPT ![c] = "idle"]
                        /\ loc' = [loc EXCEPT ![c] = l1]
                        /\ circuit_breakers' = cb1
                        /\ UNCHANGED <<cmVars, language_coordinator, metrics,
                                       is_processing, now>>
                   ELSE LET previous_language ==
                              language_coordinator.selected_language
                            L1 == IF Truthy(detected_lang)
                                  THEN set_detected_language(language_coordinator,
                                                             detected_lang)
                                  ELSE language_coordinator
                            processing_language == ensure_consistency_value(L1)
                            L2 == ensure_consistency_state(L1)
                            h1 == IF previous_language # L2.selected_language
                                  THEN update_system_prompt_for_language(
                                         conversation_history, processing_language)
                                  ELSE conversation_history
                            context == get_context(h1, l.system_prompt)
                            messages == route_generation_messages(context, text)
                            l2 == [l1 EXCEPT !.processing_language = processing_language,
                                             !.switched = (previous_language #
                                                           L2.selected_language),
                                             !.messages = messages]
                        IN /\ language_coordinator' = L2
                           /\ conversation_history' = h1
                           /\ \E t \in EntryReadings("llm") :
                                /\ now' = t
                                /\ IF Refused(cb1, "llm", t)
                                   THEN /\ processing_state' = "error"
                                        /\ last_error' = "LLM error: Circuit breaker is OPEN"
                                        /\ result' = [result EXCEPT ![c] =
                                             TurnResult(text, NoneV, NoneV,
                                               processing_language,
                                               "LLM error: Circuit breaker is OPEN",
                                               Absent)]
                                        /\ pc' = [pc EXCEPT ![c] = "idle"]
                                        /\ loc' = [loc EXCEPT ![c] = l2]
                                        /\ circuit_breakers' = cb1
                                   ELSE /\ processing_state' = "llm"
                                        /\ circuit_breakers' = AfterEntry(cb1, "llm", t)
                                        /\ pc' = [pc EXCEPT ![c] = "llm_call"]
                                        /\ loc' = [loc EXCEPT ![c] =
                                             [l2 EXCEPT !.calls.llm = @ + 1]]
                                        /\ UNCHANGED <<last_error, result>>
                           /\ UNCHANGED <<max_history, current_language, metrics,
                                          is_processing>>
  /\ UNCHANGED <<turns, fresh, ghostVars>>

\* route_transcription lines 56-58 and 63-65: the sleep is over, next attempt
SttRetry(c) ==
  /\ pc[c] = "stt_sleep"
  /\ pc' = [pc EXCEPT ![c] = "stt_call"]
  /\ loc' = [loc EXCEPT ![c].attempt = @ + 1, ![c].calls.stt = @ + 1]
  /\ UNCHANGED <<cmVars, language_coordinator, circuit_breakers, metrics,
                 is_processing, processing_state, last_error, now, result,
                 turns, fresh, failRun, ghostVars>>

\* the LLM capability answers: route_generation lines 95-106, the rest of
\* CircuitBreaker.call, then process_turn lines 271-304 up to the await of
\* the TTS capability
LlmReturn(c, out) ==
  /\ pc[c] = "llm_call"
  /\ LET l == loc[c]
         good == out.kind = "return" /\ NonEmptyText(out.value)
         response == IF good THEN out.value ELSE NoneV
         cb1 == AfterReturn(circuit_breakers, "llm")
         l1 == [l EXCEPT !.llm_out = out, !.response = response]
     IN /\ failRun' = RunAfter("llm", out.kind = "raise")
        /\ IF LlmFailed(response)
           THEN /\ processing_state' = "error"
                /\ last_error' = EmptyResultError("llm")
                /\ result' = [result EXCEPT ![c] =
                     TurnResult(l.text, NoneV, NoneV, l.processing_language,
                                EmptyResultError("llm"), Absent)]
                /\ pc' = [pc EXCEPT ![c] = "idle"]
                /\ loc' = [loc EXCEPT ![c] = l1]
                /\ circuit_breakers' = cb1
                /\ UNCHANGED <<cmVars, metrics, is_processing, now>>
           ELSE /\ conversation_history' =
                     add_turn(conversation_history, max_history, <<l.text>>,
                              <<response>>, l.processing_language)
                /\ current_language' = l.processing_language
                /\ \E t \in EntryReadings("tts") :
                     /\ now' = t
                     /\ IF Refused(cb1, "tts", t)
                        THEN /\ metrics' = record_turn(metrics,
                                             l.processing_language, FALSE, "TTS")
                             /\ processing_state' = "idle"
                             /\ is_processing' = FALSE
                             /\ result' = [result EXCEPT ![c] =
                                  TurnResult(l.text, response, NoneV,
                                             l.processing_language,
                                             "TTS error: Circuit breaker is OPEN",
                                             Absent)]
                             /\ pc' = [pc EXCEPT ![c] = "idle"]
                             /\ loc' = [loc EXCEPT ![c] = l1]
                             /\ circuit_breakers' = cb1
                        ELSE /\ processing_state' = "tts"
                             /\ circuit_breakers' = AfterEntry(cb1, "tts", t)
                             /\ pc' = [pc EXCEPT ![c] = "tts_call"]
                             /\ loc' = [loc EXCEPT ![c] =
                                  [l1 EXCEPT !.attempt = 0, !.all_raised = TRUE,
                                             !.calls.tts = @ + 1]]
                             /\ UNCHANGED <<metrics, is_processing, result>>
                /\ UNCHANGED <<max_history, last_error>>
  /\ UNCHANGED <<language_coordinator, turns, fresh, ghostVars>>

\* the TTS capability answers: route_synthesis lines 125-147, the rest of
\* CircuitBreaker.call, then process_turn lines 324-351
TtsReturn(c, out) ==
  /\ pc[c] = "tts_call"
  /\ LET l == loc[c]
         good == out.kind = "return" /\ Truthy(out.value)
         raisedAll == l.all_raised /\ out.kind = "raise"
         l0 == [l EXCEPT !.tts_out = out, !.all_raised = raisedAll]
     IN IF ~good /\ MoreAttempts(l.attempt, RETRY_COUNT)
        THEN /\ pc' = [pc EXCEPT ![c] = "tts_sleep"]
             /\ loc' = [loc EXCEPT ![c] = l0]
             /\ UNCHANGED <<circuit_breakers, metrics, is_processing,
                            processing_state, result, failRun>>
        ELSE LET audio_output == IF good THEN out.value ELSE NoneV
             IN /\ failRun' = RunAfter("tts", ~good /\ raisedAll)
                /\ circuit_breakers' = AfterReturn(circuit_breakers, "tts")
                /\ metrics' = record_turn(metrics, l.processing_language,
                                          TRUE, NoneV)
                /\ processing_state' = "idle"
                /\ is_processing' = FALSE
                /\ result' = [result EXCEPT ![c] =
                     TurnResult(l.text, l.response, audio_output,
                                l.processing_language, Absent, "present")]
                /\ pc' = [pc EXCEPT ![c] = "idle"]
                /\ loc' = [loc EXCEPT ![c] =
                     [l0 EXCEPT !.audio_output = audio_output]]
  /\ UNCHANGED <<cmVars, language_coordinator, last_error, now, turns, fresh,
                 ghostVars>>

\* route_synthesis lines 135-137 and 142-144: the sleep is over, next attempt
TtsRetry(c) ==
  /\ pc[c] = "tts_sleep"
  /\ pc' = [pc EXCEPT ![c] = "tts_call"]
  /\ loc' = [loc EXCEPT ![c].attempt = @ + 1, ![c].calls.tts = @ + 1]
  /\ UNCHANGED <<cmVars, language_coordinator, circuit_breakers, metrics,
                 is_processing, processing_state, last_error, now, result,
                 turns, fresh, failRun, ghostVars>>

\* AgentOrchestrator.set_language, lines 71-79
SetLanguage(language_code) ==
  /\ language_coordinator' = set_language(language_coordinator, language_code)
  /\ conversation_history' =
       update_system_prompt_for_language(conversation_history, language_code)
  /\ fresh' = "used"
  /\ UNCHANGED <<max_history, current_language, circuit_breakers, metrics,
                 is_processing, processing_state, last_error, now, pc, loc,
                 result, turns, failRun, ghostVars>>

\* the session sets the language, if at all, before its first turn
\* (examples/orchestrator_integration_example.py:72)
ConfigureLanguage(language_code) ==
  /\ turns = 0
  /\ SetLanguage(language_code)

\* a caller starts a turn, at most bound accepted turns in a run
StartTurn(c, language, system_prompt, bound) ==
  /\ turns < bound
  /\ ProcessTurnAccepted(c, language, system_prompt)

\* Two callers share the orchestrator and the capabilities answer anything
Next ==
  \/ \E c \in Callers : ProcessTurnRejected(c)
  \/ \E c \in Callers, language \in LanguageArgs,
        system_prompt \in SystemPromptArgs :
       StartTurn(c, language, system_prompt, MaxTurns)
  \/ \E c \in Callers, out \in SttOutcomes : SttReturn(c, out)
  \/ \E c \in Callers : SttRetry(c)
  \/ \E c \in Callers, out \in LlmOutcomes : LlmReturn(c, out)
  \/ \E c \in Callers, out \in TtsOutcomes : TtsReturn(c, out)
  \/ \E c \in Callers : TtsRetry(c)
  \/ \E language_code \in {"te-IN", "hi-IN"} : ConfigureLanguage(language_code)

Spec == Init /\ [][Next]_vars

(***************************************************************************)
(* The orchestrator when every awaited capability call and every retry     *)
(* delay of the router comes back: each await of a turn in flight is       *)
(* eventually resumed                                                      *)
(***************************************************************************)
\* the awaits of caller c: the capability calls of task_router.py lines 49,
\* 98 and 129 and the asyncio.sleep of lines 57, 64, 137 and 143
Resume(c) ==
  \/ \E out \in SttOutcomes : SttReturn(c, out)
  \/ SttRetry(c)
  \/ \E out \in LlmOutcomes : LlmReturn(c, out)
  \/ \E out \in TtsOutcomes : TtsReturn(c, out)
  \/ TtsRetry(c)

NextLive ==
  \/ \E c \in Callers : ProcessTurnRejected(c)
  \/ \E c \in Callers : StartTurn(c, NoneV, NoPrompt, MaxLiveTurns)
  \/ \E c \in Callers : Resume(c)

SpecLive ==
  Init /\ [][NextLive]_vars /\ \A c \in Callers : WF_vars(Resume(c))

(***************************************************************************)
(* An outage of the TTS provider: one caller, STT and LLM answer, every    *)
(* TTS attempt raises                                                      *)
(***************************************************************************)
NextOutage ==
  \/ StartTurn(1, NoneV, NoPrompt, MaxOutageTurns)
  \/ \E l \in {NoneV, "te-IN", "hi-IN"} : SttReturn(1, Returned("hello", l))
  \/ LlmReturn(1, Returned("hi there", NoneV))
  \/ TtsReturn(1, Raised)
  \/ TtsRetry(1)

SpecOutage == Init /\ [][NextOutage]_vars

(***************************************************************************)
(* A session of one caller whose capabilities all answer: the orchestrator *)
(* is built with a system prompt, the language is set at any time, and STT *)
(* detects any language                                                    *)
(***************************************************************************)
DetectedCodes == {"te-IN", "hi-IN", "xx-XX"}

InitSession ==
  /\ Init
  /\ SystemMessages(conversation_history) # <<>>

NextSession ==
  \/ \E language \in LanguageArgs :
       StartTurn(1, language, NoPrompt, MaxSessionTurns)
  \/ \E l \in DetectedCodes : SttReturn(1, Returned("hello", l))
  \/ LlmReturn(1, Returned("hi there", NoneV))
  \/ TtsReturn(1, Returned("wav", NoneV))
  \/ \E language_code \in {"te-IN", "hi-IN"} : SetLanguage(language_code)

SpecSession == InitSession /\ [][NextSession]_vars

(***************************************************************************)
(* TaskRouter on its own: route_transcription and route_synthesis called   *)
(* with any retry_count, the capability answering anything                 *)
(***************************************************************************)
RetryCounts == 1..MaxRetry

RouterSttOutcomes ==
  {Raised, Returned("", NoneV), Returned(" ", NoneV),
   Returned("hello", NoneV), Returned("hello", "hi-IN")}

RouterOutcomes(fn) == IF fn = "stt" THEN RouterSttOutcomes ELSE TtsOutcomes

\* lines 51 and 130: the attempt produced a result the router returns
RouterGood(fn, out) ==
  /\ out.kind = "return"
  /\ IF fn = "stt" THEN NonEmptyText(out.value) ELSE Truthy(out.value)

\* lines 53, 59, 66 and 132, 138, 145: what the router returns
RouterValue(fn, out) ==
  IF fn = "stt"
  THEN IF RouterGood(fn, out) THEN <<out.value, out.lang>> ELSE <<NoneV, NoneV>>
  ELSE IF RouterGood(fn, out) THEN <<out.value>> ELSE <<NoneV>>

InitTR ==
  /\ conversation_history = <<>>
  /\ max_history = 10
  /\ current_language = NoneV
  /\ language_coordinator = LanguageCoordinatorInit(2, 5, 2)
  /\ circuit_breakers = << >>
  /\ metrics = NoCollector
  /\ OrchIdle
  /\ inserted = <<>>
  /\ adds = 0
  /\ lastPrompt = <<>>
  /\ cmLog = EmptyCMLog
  /\ router = RouterIdle
  /\ lcLog = EmptyLog
  /\ CBIdle

trFrame ==
  <<cmVars, language_coordinator, orchVars, inserted, adds, lastPrompt, cmLog,
    lcLog, cbVars>>

\* route_transcription / route_synthesis is called: lines 46-49, 125-128,
\* up to the first await of the capability
RouterCall(fn, retry_count) ==
  /\ router.pc \in {"idle", "done"}
  /\ router' = [RouterIdle EXCEPT !.fn = fn, !.retry_count = retry_count,
                                  !.calls = 1, !.pc = "await"]
  /\ UNCHANGED trFrame

\* the capability answers: lines 51-66, 130-145
RouterAnswer(out) ==
  /\ router.pc = "await"
  /\ out \in RouterOutcomes(router.fn)
  /\ LET r1 == [router EXCEPT !.outs = Append(@, out)]
     IN router' =
          IF RouterGood(router.fn, out)
          THEN [r1 EXCEPT !.pc = "done", !.returned = RouterValue(router.fn, out)]
          ELSE IF MoreAttempts(router.attempt, router.retry_count)
               THEN [r1 EXCEPT !.pc = "sleep"]
               ELSE [r1 EXCEPT !.pc = "done",
                               !.returned = RouterValue(router.fn, out)]
  /\ UNCHANGED trFrame

\* asyncio.sleep(0.5) is over: `continue`, the next attempt awaits the
\* capability
RouterWake ==
  /\ router.pc = "sleep"
  /\ router' = [router EXCEPT !.attempt = @ + 1, !.calls = @ + 1,
                              !.pc = "await"]
  /\ UNCHANGED trFrame

RouterAnswers == \E out \in RouterSttOutcomes \cup TtsOutcomes : RouterAnswer(out)

NextTR ==
  \/ \E fn \in {"stt", "tts"}, retry_count \in RetryCounts :
       RouterCall(fn, retry_count)
  \/ RouterAnswers
  \/ RouterWake

\* the capability answers every invocation and the sleep ends
SpecTR ==
  InitTR /\ [][NextTR]_vars /\ WF_vars(RouterAnswers) /\ WF_vars(RouterWake)

\* the attempts of the call so far that produced a result
GoodAttempts ==
  {i \in 1..Len(router.outs) : RouterGood(router.fn, router.outs[i])}

RouterNone == IF router.fn = "stt" THEN <<NoneV, NoneV>> ELSE <<NoneV>>

RouterBounded ==
  router.pc # "idle" =>
    /\ router.calls <= router.retry_count
    /\ Len(router.outs) <= router.calls
    /\ router.pc # "done" => GoodAttempts = {}
    /\ router.pc = "done" =>
         /\ Len(router.outs) = router.calls
         /\ IF GoodAttempts # {}
            THEN /\ GoodAttempts = {router.calls}
                 /\ router.returned =
                      IF router.fn = "stt"
                      THEN <<router.outs[router.calls].value,
                             router.outs[router.calls].lang>>
                      ELSE <<router.outs[router.calls].value>>
            ELSE /\ router.calls = router.retry_count
                 /\ router.returned = RouterNone

\* C25: for retry_count = r >= 1, route_transcription and route_synthesis
\* invoke their capability at most r times in a call, stop at the first
\* attempt that returns a non-empty result and return that result, and after
\* r attempts that each raised or returned an empty result they end
\* returning None ((None, None) for transcription); every call ends.
C25_BoundedRetry ==
  /\ []RouterBounded
  /\ (router.pc \in {"await", "sleep"}) ~> (router.pc = "done")

C25_Witness ==
  /\ router.pc = "done"
  /\ router.fn = "stt"
  /\ router.retry_count = 3
  /\ router.calls = 3
  /\ router.outs[1] = Raised
  /\ router.outs[2] = Returned(" ", NoneV)
  /\ router.outs[3] = Returned("", NoneV)
  /\ router.returned = <<NoneV, NoneV>>

(***************************************************************************)
(* Properties of process_turn                                              *)
(***************************************************************************)
SttGood(out) == out.kind = "return" /\ NonEmptyText(out.value)
LlmGood(out) == out.kind = "return" /\ NonEmptyText(out.value)
TtsGood(out) == out.kind = "return" /\ Truthy(out.value)

\* caller c holds the dictionary returned by a call that passed the guard
ReturnedAccepted(c) ==
  pc[c] = "idle" /\ loc[c].accepted /\ result[c] # NoResult

\* C1: once an accepted process_turn call has returned (success, text-only
\* success, STT failure or LLM failure) is_processing is false: whenever no
\* call is in flight the flag is clear, so the next call is accepted.
C1_FlagClearWhenNoCallInFlight ==
  (\A c \in Callers : pc[c] = "idle") => is_processing = FALSE

\* this step is the start of a call by c: it suspends at an await, or it
\* returns at once with a dictionary
Starts(c) ==
  /\ pc[c] = "idle"
  /\ \/ pc'[c] # "idle"
     \/ result'[c] # result[c] /\ result'[c] # NoResult

\* C2: of two concurrent process_turn calls at most one is past the
\* is_processing guard, and a call that starts while another call is in
\* flight returns the "Already processing" dictionary.
C2_MutualExclusion ==
  [][/\ Cardinality({c \in Callers : pc'[c] # "idle"}) <= 1
     /\ \A c \in Callers :
          (Starts(c) /\ \E d \in Callers \ {c} : pc[d] # "idle") =>
            /\ pc'[c] = "idle"
            /\ result'[c].error = "Already processing"]_vars

C2_Witness ==
  \E c \in Callers : \E d \in Callers \ {c} :
    /\ pc[c] = "llm_call"
    /\ result[d] # NoResult
    /\ result[d].error = "Already processing"

\* every TTS attempt of the call of c failed
TtsExhausted(c) ==
  /\ loc[c].calls.tts = RETRY_COUNT
  /\ loc[c].tts_out.kind # "none"
  /\ ~TtsGood(loc[c].tts_out)

\* C3: a turn whose STT and LLM stages succeed and whose synthesis fails on
\* every retry attempt returns non-null text and response, null audio and a
\* populated error field.
C3_DegradedResultHasError ==
  \A c \in Callers :
    (ReturnedAccepted(c) /\ TtsExhausted(c)) =>
      /\ result[c].text # NoneV
      /\ result[c].response # NoneV
      /\ result[c].audio = NoneV
      /\ result[c].error # Absent
      /\ Truthy(result[c].error)

\* the STT stage of the call of c ends in this step, and it ends in failure:
\* the router gave up, or the STT breaker refused the call
SttStageFails(c) ==
  \/ /\ pc[c] = "stt_call"
     /\ pc'[c] \notin {"stt_call", "stt_sleep"}
     /\ ~SttGood(loc'[c].stt_out)
  \/ /\ pc[c] = "idle"
     /\ pc'[c] = "idle"
     /\ turns' = turns + 1
     /\ loc'[c].accepted

\* C4: when the STT stage fails, process_turn returns text, response and
\* audio all null with a non-empty error, sets last_error and
\* processing_state = "error", and invokes neither the LLM nor the TTS
\* capability in that turn.
C4_SttFailureEndsTurn ==
  [][\A c \in Callers :
       SttStageFails(c) =>
         /\ pc'[c] = "idle"
         /\ result'[c] # NoResult
         /\ result'[c].text = NoneV
         /\ result'[c].response = NoneV
         /\ result'[c].audio = NoneV
         /\ Truthy(result'[c].error) /\ result'[c].error # Absent
         /\ last_error' = result'[c].error
         /\ processing_state' = "error"
         /\ loc'[c].calls.llm = 0
         /\ loc'[c].calls.tts = 0]_vars

C4_Witness ==
  \E c \in Callers :
    /\ ReturnedAccepted(c)
    /\ loc[c].calls.stt = RETRY_COUNT
    /\ loc[c].stt_out = Raised
    /\ result[c].error = "STT returned empty text"
    /\ processing_state = "error"

\* the LLM stage of the call of c ends in this step, and it ends in failure
LlmStageFails(c) ==
  \/ /\ pc[c] = "llm_call"
     /\ pc'[c] # "llm_call"
     /\ ~LlmGood(loc'[c].llm_out)
  \/ /\ pc[c] = "stt_call"
     /\ pc'[c] = "idle"
     /\ SttGood(loc'[c].stt_out)

\* C5: when STT succeeds and the LLM stage fails, process_turn returns the
\* transcribed text with null response and audio and a non-empty error, sets
\* processing_state = "error", and does not invoke the TTS capability.
C5_LlmFailureEndsTurn ==
  [][\A c \in Callers :
       LlmStageFails(c) =>
         /\ pc'[c] = "idle"
         /\ result'[c] # NoResult
         /\ Truthy(result'[c].text)
         /\ result'[c].text = loc'[c].stt_out.value
         /\ result'[c].response = NoneV
         /\ result'[c].audio = NoneV
         /\ Truthy(result'[c].error) /\ result'[c].error # Absent
         /\ processing_state' = "error"
         /\ loc'[c].calls.tts = 0]_vars

C5_Witness ==
  \E c \in Callers :
    /\ ReturnedAccepted(c)
    /\ loc[c].calls.llm = 1
    /\ loc[c].llm_out = Raised
    /\ result[c].text = "hello"
    /\ result[c].response = NoneV
    /\ processing_state = "error"

\* C6: with breakers enabled and failure_threshold = N, once a capability has
\* raised on every attempt in N consecutive turns its breaker is open.
C6_BreakerOpenAfterThreshold ==
  \A d \in DOMAIN circuit_breakers :
    failRun[d] >= circuit_breakers[d].failure_threshold =>
      circuit_breakers[d].state = "open"

RejectedCall(c) ==
  /\ pc[c] = "idle"
  /\ pc' = pc
  /\ turns' = turns
  /\ turns > 0
  /\ result'[c] # NoResult
  /\ result'[c].error = "Already processing"

\* C22: a process_turn call refused as already processing invokes no
\* capability and leaves is_processing, processing_state, last_error, the
\* conversation history, the language state, the breakers and the metrics
\* as they were; the call in flight goes on undisturbed.
C22_RejectedCallChangesNothing ==
  [][\A c \in Callers :
       RejectedCall(c) =>
         /\ loc'[c].calls = [stt |-> 0, llm |-> 0, tts |-> 0]
         /\ \A d \in Callers \ {c} :
              pc[d] # "idle" => pc'[d] = pc[d] /\ loc'[d] = loc[d]
         /\ is_processing' = is_processing
         /\ processing_state' = processing_state
         /\ last_error' = last_error
         /\ conversation_history' = conversation_history
         /\ current_language' = current_language
         /\ language_coordinator' = language_coordinator
         /\ circuit_breakers' = circuit_breakers
         /\ metrics' = metrics]_vars

C22_Witness ==
  \E c \in Callers : \E d \in Callers \ {c} :
    /\ pc[d] = "tts_call"
    /\ processing_state = "tts"
    /\ get_turn_count(conversation_history) = 1
    /\ result[c] # NoResult
    /\ result[c].error = "Already processing"
    /\ loc[c].calls = [stt |-> 0, llm |-> 0, tts |-> 0]

\* C26: route_generation invokes the LLM capability exactly once in a call,
\* never again, with the messages of the given context followed by one
\* {role: user, content: text} entry, and returns None when the capability
\* raises or returns an empty response; the LLM capability is invoked at
\* most once in a turn.
C26_OneLlmCall ==
  \A c \in Callers :
    /\ loc[c].calls.llm <= 1
    /\ pc[c] \in {"llm_call", "tts_call", "tts_sleep"} => loc[c].calls.llm = 1
    /\ pc[c] = "llm_call" =>
         LET context == get_context(conversation_history, loc[c].system_prompt)
             messages == loc[c].messages
         IN /\ Len(messages) = Len(context) + 1
            /\ SubSeq(messages, 1, Len(context)) = context
            /\ messages[Len(messages)] =
                 [role |-> "user", content |-> <<loc[c].text>>]
    /\ (loc[c].llm_out.kind # "none" /\ ~LlmGood(loc[c].llm_out)) =>
         /\ loc[c].calls.llm = 1
         /\ loc[c].response = NoneV
         /\ pc[c] = "idle"
         /\ loc[c].calls.tts = 0

C26_Witness ==
  \E c \in Callers :
    /\ pc[c] = "idle"
    /\ loc[c].llm_out = Returned(" ", NoneV)
    /\ loc[c].calls.llm = 1
    /\ Len(loc[c].messages) = 4
    /\ loc[c].messages[1].role = "system"
    /\ loc[c].response = NoneV

\* caller c holds the dictionary of a turn whose STT, LLM and TTS stages all
\* succeeded
SuccessfulTurn(c) ==
  /\ ReturnedAccepted(c)
  /\ result[c].error = Absent
  /\ Truthy(result[c].audio)

\* C27: within a successful turn in which no auto-switch occurs, the
\* language given to transcription, the language given to generation and
\* synthesis and the language reported in the result are the same code, and
\* it is the language argument when one is supplied (stated for the turns of
\* a session whose language has been selected).
C27_OneLanguagePerTurn ==
  \A c \in Callers :
    (/\ SuccessfulTurn(c)
     /\ ~loc[c].switched
     /\ Truthy(language_coordinator.selected_language)) =>
      /\ loc[c].stt_language = loc[c].processing_language
      /\ result[c].language = loc[c].processing_language
      /\ Truthy(loc[c].language) => result[c].language = loc[c].language

\* C28: after any sequence of set_language calls and auto-switches on an
\* orchestrator built with the base prompt <<"BASE">>, the stored system
\* message is the base prompt followed by exactly one language directive,
\* and the directive names the currently selected language.
C28_OneDirectiveForSelected ==
  Truthy(language_coordinator.selected_language) =>
    /\ language_coordinator.selected_language \in DOMAIN LANGUAGE_NAMES
    /\ SystemMessages(conversation_history) =
         << [role |-> "system",
             content |-> <<"BASE", " ", Marker,
                           LANGUAGE_NAMES[language_coordinator.selected_language]>>] >>

\* caller c holds the result of the second turn of a session whose language
\* was selected before the first turn, and STT detected B in both turns
SecondTurnDetectedAgain(c, B) ==
  /\ turns = 2
  /\ SuccessfulTurn(c)
  /\ Truthy(language_coordinator.selected_language)
  /\ language_coordinator.language_history = <<B, B>>

\* C29: with a language A selected, two consecutive successful turns whose
\* STT detects the same supported language B # A switch the language during
\* the second turn: at its end B is selected, and its generation, synthesis
\* and result use B, whether or not process_turn is given a language.
C29_SwitchInSecondTurn ==
  \A c \in Callers : \A B \in DOMAIN LANGUAGE_NAMES :
    SecondTurnDetectedAgain(c, B) =>
      /\ language_coordinator.selected_language = B
      /\ loc[c].processing_language = B
      /\ result[c].language = B

\* the last n entries of s
LastN(s, n) == SubSeq(s, Len(s) - Min(Len(s), n) + 1, Len(s))

\* caller c holds the dictionary of a turn that ended in STT or LLM failure
FailedTurn(c) ==
  /\ ReturnedAccepted(c)
  /\ result[c].response = NoneV

\* caller c holds the dictionary of a turn whose STT and LLM stages
\* succeeded, with or without audio
AnsweredTurn(c) ==
  /\ ReturnedAccepted(c)
  /\ result[c].response # NoneV

\* the turn of c has been appended: one user and one assistant message with
\* the texts of the turn, the window of max_history turns kept
PairAppended(c) ==
  Conversation(conversation_history) =
    LastN(Conversation(loc[c].history_before)
            \o << [role |-> "user", content |-> <<result[c].text>>,
                   language |-> result[c].language],
                  [role |-> "assistant", content |-> <<result[c].response>>,
                   language |-> result[c].language] >>,
          2 * max_history)

\* C30 as stated: process_turn appends exactly one user/assistant pair if
\* and only if both the STT and the LLM stage succeeded (with or without
\* audio); a turn that ends in STT or LLM failure leaves the history as it
\* was when the turn started, and a refused call leaves it unchanged.
C30_HistoryUnchangedOnFailure ==
  /\ [](\A c \in Callers :
         /\ AnsweredTurn(c) => PairAppended(c)
         /\ FailedTurn(c) => conversation_history = loc[c].history_before)
  /\ [][\A c \in Callers :
         RejectedCall(c) => conversation_history' = conversation_history]_vars

\* C30, amended: process_turn appends exactly one user/assistant pair if
\* and only if both the STT and the LLM stage succeeded (with or without
\* audio); a turn that ends in STT or LLM failure leaves the user and
\* assistant messages of the history as they were when the turn started (an
\* auto-switch in that turn still replaces the system message), and a
\* refused call leaves the history unchanged.
C30_ConversationUnchangedOnFailure ==
  /\ [](\A c \in Callers :
         /\ AnsweredTurn(c) => PairAppended(c)
         /\ FailedTurn(c) =>
              Conversation(conversation_history) =
                Conversation(loc[c].history_before))
  /\ [][\A c \in Callers :
         RejectedCall(c) => conversation_history' = conversation_history]_vars

C30_Witness ==
  \E c \in Callers :
    /\ FailedTurn(c)
    /\ loc[c].switched
    /\ result[c].error = "LLM returned empty response"
    /\ get_turn_count(conversation_history) = 1
    /\ conversation_history # loc[c].history_before

\* the edges of the turn state machine
StageEdges ==
  { <<"idle", "stt">>, <<"error", "stt">>, <<"stt", "llm">>,
    <<"llm", "tts">>, <<"tts", "idle">>, <<"stt", "error">>,
    <<"llm", "error">>, <<"tts", "error">> }

\* C31: processing_state changes only from idle or error to stt when a turn
\* is accepted, from stt to llm, from llm to tts, from tts to idle, and from
\* stt, llm or tts to error; llm is entered only by a turn whose STT stage
\* succeeded, and tts only by a turn whose LLM stage succeeded.
C31_StageEdges ==
  [][processing_state' # processing_state =>
       /\ <<processing_state, processing_state'>> \in StageEdges
       /\ processing_state' = "stt" =>
            turns' = turns + 1 /\ \E c \in Callers : pc'[c] = "stt_call"
       /\ processing_state' = "llm" =>
            \E c \in Callers :
              /\ pc[c] = "stt_call"
              /\ pc'[c] = "llm_call"
              /\ SttGood(loc'[c].stt_out)
       /\ processing_state' = "tts" =>
            \E c \in Callers :
              /\ pc[c] = "llm_call"
              /\ pc'[c] = "tts_call"
              /\ SttGood(loc'[c].stt_out)
              /\ LlmGood(loc'[c].llm_out)]_vars

C31_Witness ==
  \E c \in Callers :
    /\ turns = 2
    /\ pc[c] = "idle"
    /\ loc[c].accepted
    /\ processing_state = "error"
    /\ loc[c].calls.llm = 1
    /\ ~LlmGood(loc[c].llm_out)

\* the last n detections the coordinator has recorded were all code
RecentDetectionsAre(L, n, code) ==
  /\ n <= L.history_size
  /\ Len(L.language_history) >= n
  /\ \A i \in 1..n :
       L.language_history[Len(L.language_history) - n + i] = code

\* C32: under any interleaving of set_language, set_detected_language and
\* ensure_consistency, a set_detected_language(L) call changes the selected
\* language only to L, only when the most recent switch_threshold recorded
\* detections, this one included, were all L and turn_count has reached
\* min_turns_before_switch; with switch_threshold >= 2 a single isolated
\* mismatched detection never changes it.
C32_SwitchNeedsSustainedRun ==
  [][\A code \in LangCodes :
       (/\ Constructed
        /\ Called("set_detected_language", code)
        /\ language_coordinator'.selected_language #
             language_coordinator.selected_language) =>
         /\ language_coordinator'.selected_language = code
         /\ language_coordinator.switch_threshold >= 2
         /\ RecentDetectionsAre(language_coordinator',
                                language_coordinator.switch_threshold, code)
         /\ language_coordinator.turn_count >=
              language_coordinator.min_turns_before_switch]_vars

C32_Witness ==
  /\ Constructed
  /\ lcLog.switch = <<"en-IN", "hi-IN">>
  /\ Len(lcLog.last) = 3
  /\ lcLog.last[1] = <<"set_detected_language", "hi-IN">>
  /\ lcLog.last[2] = <<"set_language", "en-IN">>
  /\ lcLog.last[3] = <<"set_detected_language", "hi-IN">>

\* this step records a metrics sample; the sample is the last of the list
SampleRecorded == metrics.collector /\ metrics' # metrics

LastSample(M) == M.turn_metrics[Len(M.turn_metrics)]

\* C33: a metrics sample is recorded only by the step that ends the TTS
\* stage of a turn, so turns that fail in STT or LLM or are refused record
\* none, and a sample with success = true is recorded only for a turn whose
\* result carries audio.
C33_SuccessSampleHasAudio ==
  [][SampleRecorded =>
       \E c \in Callers :
         /\ pc[c] = "tts_call"
         /\ pc'[c] = "idle"
         /\ LastSample(metrics').success => Truthy(result'[c].audio)]_vars

\* the messages the call of c gave to the LLM hold a system message with
\* the text p
SentAsSystem(c, p) ==
  \E i \in 1..Len(loc[c].messages) :
    /\ loc[c].messages[i].role = "system"
    /\ loc[c].messages[i].content = p

\* C34: the system_prompt argument of process_turn is sent to the LLM as
\* the system message only when the history holds no system message at the
\* LLM stage of that turn, and it is never stored in the conversation
\* history, so later turns do not see it.
C34_OverrideNeverStored ==
  /\ \A i \in 1..Len(conversation_history) :
       conversation_history[i].content \notin SystemPromptArgs
  /\ \A c \in Callers :
       pc[c] = "llm_call" =>
         \A p \in SystemPromptArgs \ {NoPrompt} :
           SentAsSystem(c, p) <=>
             /\ loc[c].system_prompt = p
             /\ \A i \in 1..Len(conversation_history) :
                  conversation_history[i].role # "system"

C34_Witness ==
  \E c \in Callers :
    /\ turns = 2
    /\ pc[c] = "llm_call"
    /\ SentAsSystem(c, <<"OVERRIDE">>)
    /\ Len(loc[c].messages) = 4
    /\ Len(conversation_history) = 2
    /\ conversation_history[1].role = "user"

\* C35: with max_history = 0, once add_turn has been called no user or
\* assistant message is retained (no non-system message, get_turn_count()
\* = 0) and the history holds at most one system message.
C35_ZeroWindowKeepsNothing ==
  (max_history = 0 /\ inserted # <<>>) =>
    /\ Conversation(conversation_history) = <<>>
    /\ get_turn_count(conversation_history) = 0
    /\ Len(SystemMessages(conversation_history)) <= 1

\* C36: for failure_threshold >= 1, in every reachable state of the breaker,
\* also after reset(): closed implies failure_count < failure_threshold, and
\* open or half_open implies failure_count >= failure_threshold.
C36_StateMatchesFailureCount ==
  breaker.failure_threshold >= 1 =>
    /\ breaker.state = "closed" =>
         breaker.failure_count < breaker.failure_threshold
    /\ breaker.state \in {"open", "half_open"} =>
         breaker.failure_count >= breaker.failure_threshold

C36_Witness ==
  /\ breaker.state = "half_open"
  /\ breaker.failure_threshold = 1
  /\ breaker.failure_count = 2
  /\ cbLog.event = "entered"
  /\ <<"half_open", "closed">> \in cbLog.transitions

\* C37: a call refused with CircuitBreakerOpen leaves the breaker's state,
\* failure_count, last_failure_time and success_count unchanged and invokes
\* nothing: refused calls are not counted as failures and do not extend the
\* cooldown.
C37_RefusedCallNotCounted ==
  [][cbLog'.event = "rejected" =>
       /\ breaker'.state = breaker.state
       /\ breaker'.failure_count = breaker.failure_count
       /\ breaker'.last_failure_time = breaker.last_failure_time
       /\ breaker'.success_count = breaker.success_count
       /\ inflight' = inflight
       /\ time_until_retry(breaker', now') = time_until_retry(breaker, now)]_vars

C37_Witness ==
  /\ cbLog.event = "rejected"
  /\ breaker.state = "open"
  /\ breaker.timeout = 1
  /\ now = 1
  /\ breaker.last_failure_time = 0
  /\ breaker.failure_count = 2

\* the messages of h with role r
WithRole(h, r) == SelectSeq(h, LAMBDA m : m.role = r)

\* C38: for max_history >= 1, in every state reached by set_system_prompt,
\* add_turn and clear_history the stored history is an optional system
\* message at position 0 followed by an even number of messages that
\* alternate user, assistant, so there are as many user as assistant
\* messages.
C38_PairsStayWhole ==
  max_history >= 1 =>
    LET h == conversation_history
        off == IF h # <<>> /\ h[1].role = "system" THEN 1 ELSE 0
    IN /\ (Len(h) - off) % 2 = 0
       /\ \A i \in 1..(Len(h) - off) :
            h[off + i].role = IF i % 2 = 1 THEN "user" ELSE "assistant"
       /\ Len(WithRole(h, "user")) = Len(WithRole(h, "assistant"))

C38_Witness ==
  /\ max_history = 1
  /\ Len(inserted) = 3
  /\ Len(conversation_history) = 3
  /\ conversation_history[1].role = "system"
  /\ conversation_history[2].content = inserted[3]
  /\ inserted[2] # inserted[3]

\* C39: in every reachable state of the orchestrator processing_state is
\* "error" exactly when last_error is set: acceptance clears last_error and
\* every path that ends a turn in error sets it.
C39_ErrorStageIffLastError ==
  (processing_state = "error") <=> (last_error # NoneV)

C39_Witness ==
  /\ processing_state = "error"
  /\ last_error = "LLM returned empty response"
  /\ \E c \in DOMAIN result : /\ result[c].kind # "none"
                               /\ result[c].text # NoneV
                               /\ result[c].error = last_error

\* the four fields every record returned by process_turn carries
ResultFields == {"text", "response", "audio", "language"}

\* C40: when every capability invocation eventually returns or raises, every
\* process_turn call ends by returning a record with the fields text,
\* response, audio and language, whatever the capabilities raised or
\* returned and whatever the breakers' states.
C40_TurnTerminates ==
  /\ [](\A c \in Callers :
          result[c] # NoResult => ResultFields \subseteq DOMAIN result[c])
  /\ \A c \in Callers :
       (pc[c] # "idle") ~> (pc[c] = "idle" /\ result[c] # NoResult)

C40_Witness ==
  \E c \in Callers :
    /\ pc[c] = "idle"
    /\ result[c] # NoResult
    /\ loc[c].accepted
    /\ loc[c].all_raised
    /\ loc[c].calls.stt = RETRY_COUNT
    /\ ResultFields \subseteq DOMAIN result[c]

====
